---- MODULE Spec2Model ----
(***************************************************************************)
(* A model of MiniECS (src/ECS/ECS.h): the 64-bit entity handle, the       *)
(* process-wide component type counter, the World (entity table, free      *)
(* list, component pools) and the RosterView query iterator.               *)
(*                                                                         *)
(* Representation of machine integers.  A 32-bit unsigned value is kept as *)
(* the integer with the same two's-complement bit pattern, so              *)
(* EntityIndex(-1) = 0xFFFFFFFF is the integer -1.  A 64-bit unsigned      *)
(* value is the record [hi, lo] of its two 32-bit halves.                  *)
(***************************************************************************)
EXTENDS Integers, Sequences, FiniteSets, TLC

\* ------------------------------------------------------------------ bounds
MaxEntities == 2      \* the entity table holds at most this many slots
MaxVersion  == 1      \* no handle of this version or more is destroyed

\* ------------------------------------------------------- program constants
MAX_COMPONENTS == 64

\* The component types of the host program and the marker values that its
\* components carry.
Types  == {"Transform", "Shape"}
Values == {1, 2}
\* the value of a component constructed without arguments
DefaultValues == {1}
\* the type whose components the host program reads and writes
StoreTypes == {"Transform"}

\* ------------------------------------------------------ machine integers
\* EntityIndex(-1): the all-bits-set 32-bit pattern
InvalidIndex == -1

\* the 32-bit patterns 0x7FFFFFFF and 0x80000000
MaxI32 == 2147483647
MinI32 == (-MaxI32) - 1

\* 32-bit patterns the handle functions are called with: small values, the
\* sign bit alone, all bits but the sign bit, and the patterns next to and
\* at all-bits-set
U32Samples == {0, 1, 2, 65536, MaxI32, MinI32, -2, InvalidIndex}

\* unsigned 32-bit x + 1, wrapping from 0xFFFFFFFF to 0 (the pattern
\* 0x7FFFFFFF is followed by 0x80000000)
Add1U32(x) ==
    IF x = 2147483647 THEN (-2147483647) - 1 ELSE x + 1

\* bitwise or of two 32-bit patterns
RECURSIVE Or32(_, _)
Or32(x, y) ==
    IF x = 0 THEN y
    ELSE IF y = 0 THEN x
    ELSE IF x = -1 \/ y = -1 THEN -1
    ELSE (IF (x % 2) + (y % 2) > 0 THEN 1 ELSE 0) + 2 * Or32(x \div 2, y \div 2)

\* a widening of a 32-bit value to 64 bits that copies the sign bit, as
\* for a signed int
SExt(x) == [hi |-> IF x < 0 THEN -1 ELSE 0, lo |-> x]

\* (EntityID)x : zero extension of a 32-bit value to 64 bits
ZExt(x) == [hi |-> 0, lo |-> x]

\* (unsigned int)e : truncation of a 64-bit value to its low 32 bits
Trunc32(e) == e.lo

\* e << 32 and e >> 32 on 64-bit values
Shl32(e) == [hi |-> e.lo, lo |-> 0]
Shr32(e) == [hi |-> 0, lo |-> e.hi]

\* a | b on 64-bit values
Or64(a, b) == [hi |-> Or32(a.hi, b.hi), lo |-> Or32(a.lo, b.lo)]

\* ------------------------------------------------------ entity identity
CreateEntityId(index, version) == Or64(Shl32(ZExt(index)), ZExt(version))

GetEntityIndex(id) == Trunc32(Shr32(id))

GetEntityVersion(id) == Trunc32(id)

IsEntityValid(id) == Shr32(id) /= ZExt(InvalidIndex)

\* a null component pointer, and the component pointer into pool cid at
\* element index
NullPtr == [pool |-> -1, index |-> -1]
Ptr(cid, index) == [pool |-> cid, index |-> index]

\* a static local of GetId<T> that has not been initialised yet
NoId == -1

\* "no handle" and "no type", for the operations that take none
NoEntity == [hi |-> -1, lo |-> -1]
NoType == "none"

VARIABLES
    s_componentCounter,   \* ECS::s_componentCounter
    s_componentId,        \* the static local s_componentId of each GetId<T>
    m_entities,           \* World::m_entities, slot i is m_entities[i + 1]
    m_freeEntities,       \* World::m_freeEntities
    m_componentPools,     \* World::m_componentPools, pool c is [c + 1]
    issued,               \* history: the handles NewEntity has returned
    destroyed,            \* history: the handles DestroyEntity was called on
    attached,             \* history: <<h, T>> assigned and not since removed
    written,              \* history: the last write through a Get<T>(id)
    lastOp,               \* history: the last operation
    probe                 \* a call of the handle functions: arguments, results

world == <<m_entities, m_freeEntities, m_componentPools>>
vars == <<s_componentCounter, s_componentId, m_entities, m_freeEntities,
          m_componentPools, issued, destroyed, attached, written, lastOp,
          probe>>

\* the one element of a singleton set (used to bind a computed value to a
\* name, so that it is computed once)
The(S) == CHOOSE x \in S : TRUE

\* slot i of the entity table
Slot(ents, i) == ents[i + 1]

\* ------------------------------------------------- component type identity
\* GetId<T>() initialising s_componentId from the counter without the ++
GetIdRegNoIncrement(reg, T) ==
    IF reg.ids[T] = NoId
    THEN [ctr |-> reg.ctr, ids |-> [reg.ids EXCEPT ![T] = reg.ctr]]
    ELSE reg

\* GetId<T>(): reg is [ctr, ids]; the first call for T takes the counter
GetIdReg(reg, T) ==
    IF reg.ids[T] = NoId
    THEN [ctr |-> reg.ctr + 1, ids |-> [reg.ids EXCEPT ![T] = reg.ctr]]
    ELSE reg

\* GetId<T>() with s_componentId not static: every call answers the counter
GetIdNotStatic(reg, T) == reg.ctr

GetId(reg, T) == GetIdReg(reg, T).ids[T]

Reg == [ctr |-> s_componentCounter, ids |-> s_componentId]

\* ------------------------------------------------------ entity lifecycle
\* World::NewEntity with the arguments of CreateEntityId exchanged
NewEntityOpSwapped(ents, free) ==
    IF free /= <<>>
    THEN LET newIndex == free[Len(free)]
             newID == CreateEntityId(GetEntityVersion(Slot(ents, newIndex).m_id),
                                     newIndex)
         IN  [ents |-> [ents EXCEPT ![newIndex + 1].m_id = newID],
              free |-> SubSeq(free, 1, Len(free) - 1),
              ret  |-> newID]
    ELSE LET newID == CreateEntityId(0, Len(ents))
         IN  [ents |-> Append(ents, [m_id |-> newID, m_mask |-> {}]),
              free |-> free,
              ret  |-> newID]

\* World::NewEntity
NewEntityOp(ents, free) ==
    IF free /= <<>>
    THEN LET newIndex == free[Len(free)]
             newID == CreateEntityId(newIndex,
                                     GetEntityVersion(Slot(ents, newIndex).m_id))
         IN  [ents |-> [ents EXCEPT ![newIndex + 1].m_id = newID],
              free |-> SubSeq(free, 1, Len(free) - 1),
              ret  |-> newID]
    ELSE LET newID == CreateEntityId(Len(ents), 0)
         IN  [ents |-> Append(ents, [m_id |-> newID, m_mask |-> {}]),
              free |-> free,
              ret  |-> newID]

\* World::DestroyEntity without m_mask.reset()
DestroyEntityOpKeepMask(ents, free, id) ==
    LET newID == CreateEntityId(InvalidIndex, Add1U32(GetEntityVersion(id)))
        index == GetEntityIndex(id)
    IN  [ents |-> [ents EXCEPT ![index + 1].m_id = newID],
         free |-> Append(free, GetEntityIndex(ZExt(GetEntityIndex(id))))]

\* World::DestroyEntity
DestroyEntityOp(ents, free, id) ==
    LET newID == CreateEntityId(InvalidIndex, Add1U32(GetEntityVersion(id)))
        index == GetEntityIndex(id)
    IN  [ents |-> [ents EXCEPT ![index + 1] = [m_id |-> newID, m_mask |-> {}]],
         free |-> Append(free, GetEntityIndex(ZExt(GetEntityIndex(id))))]

\* ------------------------------------------------------- component pools
\* an entry of m_componentPools: nullptr, or a ComponentPool whose m_data
\* maps the element indices that have been constructed to their value (the
\* other bytes of the arena are uninitialised)
NullPool == [null |-> TRUE, m_data |-> <<>>]
NewComponentPool == [null |-> FALSE, m_data |-> <<>>]

\* a resize that builds a new vector of n null entries
ResizeFresh(pools, n) == [i \in 1..n |-> NullPool]

\* std::vector::resize(n, nullptr)
Resize(pools, n) ==
    IF n > Len(pools)
    THEN pools \o [i \in 1..(n - Len(pools)) |-> NullPool]
    ELSE SubSeq(pools, 1, n)

\* the value a component pointer points at
Deref(pools, p) == pools[p.pool + 1].m_data[p.index]

\* World::Assign<T>(id, v) without the comparison of the stored handle
AssignOpUnchecked(reg, ents, pools, T, id, v) ==
    LET reg1 == GetIdReg(reg, T)
        componentId == GetId(reg, T)
        index == GetEntityIndex(id)
        resized == IF componentId >= Len(pools)
                   THEN Resize(pools, componentId + 1)
                   ELSE pools
        made == IF resized[componentId + 1].null
                THEN [resized EXCEPT ![componentId + 1] = NewComponentPool]
                ELSE resized
    IN  [reg   |-> reg1,
         ents  |-> [ents EXCEPT ![index + 1].m_mask = @ \cup {componentId}],
         pools |-> [made EXCEPT ![componentId + 1].m_data = (index :> v) @@ @],
         ret   |-> Ptr(componentId, index)]

\* World::Assign<T>(id, v)
AssignOp(reg, ents, pools, T, id, v) ==
    LET reg1 == GetIdReg(reg, T)
        componentId == GetId(reg, T)
        index == GetEntityIndex(id)
    IN  IF Slot(ents, index).m_id /= id
        THEN [reg |-> reg1, ents |-> ents, pools |-> pools, ret |-> NullPtr]
        ELSE LET resized == IF componentId >= Len(pools)
                            THEN Resize(pools, componentId + 1)
                            ELSE pools
                 made == IF resized[componentId + 1].null
                         THEN [resized EXCEPT ![componentId + 1] = NewComponentPool]
                         ELSE resized
             IN  [reg   |-> reg1,
                  ents  |-> [ents EXCEPT ![index + 1].m_mask = @ \cup {componentId}],
                  pools |-> [made EXCEPT ![componentId + 1].m_data = (index :> v) @@ @],
                  ret   |-> Ptr(componentId, index)]

\* World::Remove<T>(id) without the comparison of the stored handle
RemoveOpUnchecked(reg, ents, T, id) ==
    [reg  |-> GetIdReg(reg, T),
     ents |-> [ents EXCEPT
                  ![GetEntityIndex(id) + 1].m_mask = @ \ {GetId(reg, T)}]]

\* World::Remove<T>(id)
RemoveOp(reg, ents, T, id) ==
    LET index == GetEntityIndex(id)
    IN  IF Slot(ents, index).m_id /= id
        THEN [reg |-> reg, ents |-> ents]
        ELSE [reg  |-> GetIdReg(reg, T),
              ents |-> [ents EXCEPT ![index + 1].m_mask = @ \ {GetId(reg, T)}]]

\* World::Get<T>(id)
GetOp(reg, ents, pools, T, id) ==
    LET componentId == GetId(reg, T)
        index == GetEntityIndex(id)
    IN  [reg |-> GetIdReg(reg, T),
         ret |-> IF componentId \notin Slot(ents, index).m_mask
                 THEN NullPtr
                 ELSE IF componentId < Len(pools) /\ ~pools[componentId + 1].null
                      THEN Ptr(componentId, index)
                      ELSE NullPtr]

\* World::Has<T>(id)
HasOp(reg, ents, pools, T, id) == ~(GetOp(reg, ents, pools, T, id).ret = NullPtr)

\* ------------------------------------------------------------ RosterView
\* the values of { GetId<ComponentTypes>() ... }, evaluated left to right
RECURSIVE PackIds(_, _)
PackIds(reg, Ts) ==
    IF Ts = <<>> THEN <<>>
    ELSE <<GetId(reg, Head(Ts))>> \o PackIds(GetIdReg(reg, Head(Ts)), Tail(Ts))

RECURSIVE PackReg(_, _)
PackReg(reg, Ts) ==
    IF Ts = <<>> THEN reg ELSE PackReg(GetIdReg(reg, Head(Ts)), Tail(Ts))

\* RosterView<Ts...>::RosterView(World&)
RosterViewCtor(reg, Ts) ==
    IF Len(Ts) = 0
    THEN [reg |-> reg,
          view |-> [m_index |-> 0, m_all |-> TRUE, m_componentMask |-> {}]]
    ELSE The({[reg |-> PackReg(reg, Ts),
               view |-> [m_index |-> 0, m_all |-> FALSE,
                         m_componentMask |->
                             {componentIds[i] : i \in 1..Len(componentIds)}]] :
              componentIds \in {<<0>> \o PackIds(reg, Ts)}})

\* the private RosterView(World&, index, mask)
RosterViewAt(view, index, mask) ==
    [view EXCEPT !.m_index = index, !.m_componentMask = mask]

\* RosterView::operator*
Star(ents, view) == Slot(ents, view.m_index).m_id

\* RosterView::operator!=
NotEqual(ents, view, other) ==
    view.m_index /= other.m_index /\ view.m_index /= Len(ents)

\* RosterView::ValidIndex without validEntity
ValidIndexMaskOnly(ents, view) ==
    \/ view.m_all
    \/ view.m_componentMask
         = (view.m_componentMask \cap Slot(ents, view.m_index).m_mask)

\* RosterView::ValidIndex
ValidIndex(ents, view) ==
    LET validEntity == IsEntityValid(Slot(ents, view.m_index).m_id)
        validComponentMask ==
            \/ view.m_all
            \/ view.m_componentMask
                 = (view.m_componentMask \cap Slot(ents, view.m_index).m_mask)
    IN  validEntity /\ validComponentMask

\* RosterView::operator++ without the scan for the next valid index
IncrementOnce(ents, view) == [view EXCEPT !.m_index = Add1U32(@)]

\* RosterView::operator++
RECURSIVE Increment(_, _)
Increment(ents, view) ==
    The({IF next.m_index < Len(ents) /\ ~ValidIndex(ents, next)
         THEN Increment(ents, next)
         ELSE next : next \in {[view EXCEPT !.m_index = Add1U32(@)]}})

\* the loop of RosterView::begin without the test of the handle's validity
RECURSIVE FirstIndexMaskOnly(_, _, _)
FirstIndexMaskOnly(ents, mask, firstIndex) ==
    IF /\ firstIndex < Len(ents)
       /\ mask /= (mask \cap Slot(ents, firstIndex).m_mask)
    THEN FirstIndexMaskOnly(ents, mask, firstIndex + 1)
    ELSE firstIndex

\* the loop of RosterView::begin
RECURSIVE FirstIndex(_, _, _)
FirstIndex(ents, mask, firstIndex) ==
    IF /\ firstIndex < Len(ents)
       /\ \/ mask /= (mask \cap Slot(ents, firstIndex).m_mask)
          \/ ~IsEntityValid(Slot(ents, firstIndex).m_id)
    THEN FirstIndex(ents, mask, firstIndex + 1)
    ELSE firstIndex

\* RosterView::begin
Begin(ents, view) ==
    RosterViewAt(view, FirstIndex(ents, view.m_componentMask, 0),
                 view.m_componentMask)

\* RosterView::end
End(ents, view) == RosterViewAt(view, Len(ents), view.m_componentMask)

\* for (auto entity : view): the handles yielded, in order
RECURSIVE ForLoop(_, _, _)
ForLoop(ents, it, end) ==
    IF NotEqual(ents, it, end)
    THEN <<Star(ents, it)>>
            \o The({ForLoop(ents, next, end) : next \in {Increment(ents, it)}})
    ELSE <<>>

RangeFor(ents, view) ==
    The({ForLoop(ents, b, e) : b \in {Begin(ents, view)}, e \in {End(ents, view)}})

\* ------------------------------------------------------------- the program
\* the parameter packs a query is written with
TypeLists ==
    {<<>>} \cup {<<t>> : t \in Types}
           \cup {<<t, u>> : <<t, u>> \in {p \in Types \X Types : p[1] /= p[2]}}

\* no call of the handle functions is being followed
NoProbe ==
    [stage |-> "none", index |-> 0, version |-> 0, id |-> NoEntity,
     outIndex |-> 0, outVersion |-> 0, valid |-> FALSE]

\* the record of an operation: its name, whether the handle passed was the
\* one stored in its slot, and whether the pointer returned was non-null
Op(op, fresh, ok) ==
    [op |-> op, fresh |-> fresh, ok |-> ok, types |-> <<>>, seq |-> <<>>]

\* the record of a query: its parameter pack and the handles it yielded
QueryOp(Ts, seq) ==
    [op |-> "query", fresh |-> FALSE, ok |-> FALSE, types |-> Ts, seq |-> seq]

\* the handle is the one stored in the slot it addresses
Fresh(id) == Slot(m_entities, GetEntityIndex(id)).m_id = id

\* no write through a component pointer is being followed
NoWrite == [id |-> NoEntity, type |-> NoType, val |-> 0]

\* written, after an operation on <<id, T>> that ends what a write promised
Forget(id, T) ==
    IF written.id = id /\ (T = NoType \/ written.type = T)
    THEN NoWrite ELSE written

Init ==
    /\ s_componentCounter = 0
    /\ s_componentId = [T \in Types |-> NoId]
    /\ m_entities = <<>>
    /\ m_freeEntities = <<>>
    /\ m_componentPools = <<>>
    /\ issued = {}
    /\ destroyed = {}
    /\ attached = {}
    /\ written = NoWrite
    /\ lastOp = Op("init", FALSE, FALSE)
    /\ probe = NoProbe

\* id = world.NewEntity()
NewEntity ==
    /\ m_freeEntities /= <<>> \/ Len(m_entities) < MaxEntities
    /\ \E r \in {NewEntityOp(m_entities, m_freeEntities)} :
           /\ m_entities' = r.ents
           /\ m_freeEntities' = r.free
           /\ issued' = issued \cup {r.ret}
           /\ lastOp' = Op("new", FALSE, FALSE)
    /\ UNCHANGED <<s_componentCounter, s_componentId, m_componentPools,
                   destroyed, attached, written, probe>>

\* world.DestroyEntity(id), on a handle that is live
DestroyEntity(id) ==
    /\ Fresh(id)
    /\ GetEntityVersion(id) < MaxVersion
    /\ \E r \in {DestroyEntityOp(m_entities, m_freeEntities, id)} :
           /\ m_entities' = r.ents
           /\ m_freeEntities' = r.free
    /\ destroyed' = destroyed \cup {id}
    /\ attached' = {a \in attached : a[1] /= id}
    /\ written' = Forget(id, NoType)
    /\ lastOp' = Op("destroy", TRUE, FALSE)
    /\ UNCHANGED <<s_componentCounter, s_componentId, m_componentPools, issued,
                   probe>>

\* world.Assign<T>(id, v)
Assign(id, T, v) ==
    /\ \E r \in {AssignOp(Reg, m_entities, m_componentPools, T, id, v)} :
           /\ s_componentCounter' = r.reg.ctr
           /\ s_componentId' = r.reg.ids
           /\ m_entities' = r.ents
           /\ m_componentPools' = r.pools
           /\ attached' = IF r.ret /= NullPtr THEN attached \cup {<<id, T>>}
                          ELSE attached
           /\ lastOp' = Op("assign", Fresh(id), r.ret /= NullPtr)
    /\ written' = Forget(id, T)
    /\ UNCHANGED <<m_freeEntities, issued, destroyed, probe>>

\* world.Remove<T>(id)
Remove(id, T) ==
    /\ \E r \in {RemoveOp(Reg, m_entities, T, id)} :
           /\ s_componentCounter' = r.reg.ctr
           /\ s_componentId' = r.reg.ids
           /\ m_entities' = r.ents
    /\ attached' = attached \ {<<id, T>>}
    /\ written' = Forget(id, T)
    /\ lastOp' = Op("remove", Fresh(id), FALSE)
    /\ UNCHANGED <<m_freeEntities, m_componentPools, issued, destroyed, probe>>

\* p = world.Get<T>(id)
Get(id, T) ==
    /\ \E r \in {GetOp(Reg, m_entities, m_componentPools, T, id)} :
           /\ s_componentCounter' = r.reg.ctr
           /\ s_componentId' = r.reg.ids
           /\ lastOp' = Op("get", Fresh(id), r.ret /= NullPtr)
    /\ UNCHANGED <<m_entities, m_freeEntities, m_componentPools, issued,
                   destroyed, attached, written, probe>>

\* p = world.Get<T>(id); *p = v   (Main.cpp: tf->position.x = 10.0f)
Write(id, T, v) ==
    /\ \E r \in {GetOp(Reg, m_entities, m_componentPools, T, id)} :
           /\ r.ret /= NullPtr
           /\ s_componentCounter' = r.reg.ctr
           /\ s_componentId' = r.reg.ids
           /\ m_componentPools' =
                 [m_componentPools EXCEPT
                     ![r.ret.pool + 1].m_data = (r.ret.index :> v) @@ @]
           /\ lastOp' = Op("write", Fresh(id), TRUE)
    /\ written' = [id |-> id, type |-> T, val |-> v]
    /\ UNCHANGED <<m_entities, m_freeEntities, issued, destroyed, attached,
                   probe>>

\* for (auto entity : RosterView<Ts...>(world)) { }
Query(Ts) ==
    /\ \E r \in {RosterViewCtor(Reg, Ts)} :
           /\ s_componentCounter' = r.reg.ctr
           /\ s_componentId' = r.reg.ids
           /\ lastOp' = QueryOp(Ts, RangeFor(m_entities, r.view))
    /\ UNCHANGED <<m_entities, m_freeEntities, m_componentPools, issued,
                   destroyed, attached, written, probe>>

\* entities, components constructed without arguments, and queries
Next ==
    \/ NewEntity
    \/ \E id \in issued : DestroyEntity(id)
    \/ \E id \in issued, T \in Types, v \in DefaultValues : Assign(id, T, v)
    \/ \E id \in issued, T \in Types : Remove(id, T)
    \/ \E Ts \in TypeLists : Query(Ts)

Spec == Init /\ [][Next]_vars

\* entities and components constructed from arguments and written through
\* the pointers Get returns
NextStore ==
    \/ NewEntity
    \/ \E id \in issued : DestroyEntity(id)
    \/ \E id \in issued, T \in StoreTypes, v \in Values : Assign(id, T, v)
    \/ \E id \in issued, T \in StoreTypes : Remove(id, T)
    \/ \E id \in issued, T \in StoreTypes : Get(id, T)
    \/ \E id \in issued, T \in StoreTypes, v \in Values : Write(id, T, v)

SpecStore == Init /\ [][NextStore]_vars

\* the values a component of type T is constructed with: from arguments for
\* the types the host program stores, without arguments for the others
ValuesOf(T) == IF T \in StoreTypes THEN Values ELSE DefaultValues

\* entities and components of every type, constructed as the host program
\* constructs them
NextAssign ==
    \/ NewEntity
    \/ \E id \in issued : DestroyEntity(id)
    \/ \E id \in issued, T \in Types : \E v \in ValuesOf(T) : Assign(id, T, v)

SpecAssign == Init /\ [][NextAssign]_vars

\* a caller of the handle functions: id = CreateEntityId(index, version),
\* then GetEntityIndex(id), GetEntityVersion(id) and IsEntityValid(id)
InitCodec ==
    /\ s_componentCounter = 0
    /\ s_componentId = [T \in Types |-> NoId]
    /\ m_entities = <<>>
    /\ m_freeEntities = <<>>
    /\ m_componentPools = <<>>
    /\ issued = {}
    /\ destroyed = {}
    /\ attached = {}
    /\ written = NoWrite
    /\ lastOp = Op("init", FALSE, FALSE)
    /\ \E index \in U32Samples, version \in U32Samples :
          probe = [NoProbe EXCEPT !.stage = "args", !.index = index,
                                  !.version = version]

Encode ==
    /\ probe.stage = "args"
    /\ probe' = [probe EXCEPT !.stage = "encoded",
                              !.id = CreateEntityId(probe.index, probe.version)]
    /\ UNCHANGED <<s_componentCounter, s_componentId, m_entities,
                   m_freeEntities, m_componentPools, issued, destroyed,
                   attached, written, lastOp>>

Decode ==
    /\ probe.stage = "encoded"
    /\ probe' = [probe EXCEPT !.stage = "decoded",
                              !.outIndex = GetEntityIndex(probe.id),
                              !.outVersion = GetEntityVersion(probe.id),
                              !.valid = IsEntityValid(probe.id)]
    /\ UNCHANGED <<s_componentCounter, s_componentId, m_entities,
                   m_freeEntities, m_componentPools, issued, destroyed,
                   attached, written, lastOp>>

NextCodec ==
    \/ Encode
    \/ Decode

SpecCodec == InitCodec /\ [][NextCodec]_vars

\* ------------------------------------------------------- what is observed
\* the elements of a sequence
SeqSet(q) == {q[i] : i \in 1..Len(q)}

\* the indices of the table's slots
Indices == 0..(Len(m_entities) - 1)

\* the slots whose stored handle is valid
ValidSlots == {i \in Indices : IsEntityValid(Slot(m_entities, i).m_id)}

\* the types attached at slot i: those whose identity is a bit of its mask
AttachedTypes(i) ==
    {T \in Types : s_componentId[T] /= NoId
                   /\ s_componentId[T] \in Slot(m_entities, i).m_mask}

\* what a query over Ts, constructed and traversed over the entity table
\* ents with the type identities of reg, yields
QueryOn(reg, ents, Ts) ==
    The({RangeFor(ents, v) : v \in {RosterViewCtor(reg, Ts).view}})

\* what a query over Ts, constructed and traversed now, yields
QueryResult(Ts) == QueryOn(Reg, m_entities, Ts)

\* what Get<T>(id) and Has<T>(id), called now, return
GetNow(id, T) == GetOp(Reg, m_entities, m_componentPools, T, id).ret
HasNow(id, T) == HasOp(Reg, m_entities, m_componentPools, T, id)

\* ------------------------------------------------------------------ claims

\* the handles of the valid slots to which every type of Ts is attached
Qualifying(Ts) ==
    {Slot(m_entities, i).m_id :
        i \in {j \in ValidSlots : SeqSet(Ts) \subseteq AttachedTypes(j)}}

\* C1: for every non-empty type list S, whichever type holds identity 0, a
\* query over S yields exactly the valid handles whose attached types
\* include every type of S.
C1_QuerySupersetLaw ==
    (lastOp.op = "query" /\ lastOp.types /= <<>>) =>
        SeqSet(lastOp.seq) = Qualifying(lastOp.types)

\* C2: DestroyEntity(h) on a live handle at any slot, immediately followed
\* by NewEntity(), returns a handle with h's index and h's version plus one.
C2_RecyclingReusesIndices ==
    [][lastOp'.op = "destroy" =>
          \A id \in issued :
              DestroyEntity(id) =>
                  LET r == NewEntityOp(m_entities', m_freeEntities')
                  IN  /\ GetEntityIndex(r.ret) = GetEntityIndex(id)
                      /\ GetEntityVersion(r.ret) = GetEntityVersion(id) + 1]_vars

\* C3: once DestroyEntity(h) has been executed, Get<T>(h) is null and
\* Has<T>(h) is false for every type T, in every later state.
C3_GenerationalExclusivityGet ==
    \A id \in destroyed, T \in Types :
        GetNow(id, T) = NullPtr /\ ~HasNow(id, T)

\* C4: Assign<T>(h, v) with a handle that is not the one stored in its slot
\* returns null and leaves the entity table, the free list and every stored
\* component value unchanged.
C4_StaleAssignRejected ==
    [][(lastOp'.op = "assign" /\ ~lastOp'.fresh) =>
          /\ ~lastOp'.ok
          /\ m_entities' = m_entities
          /\ m_freeEntities' = m_freeEntities
          /\ m_componentPools' = m_componentPools]_vars

\* C4 witness: an Assign through a stale handle has returned null while
\* some component value is stored.
C4_Witness ==
    /\ lastOp = Op("assign", FALSE, FALSE)
    /\ \E c \in 1..Len(m_componentPools) :
          DOMAIN m_componentPools[c].m_data /= {}

\* C5: Has<T>(h) is true exactly when an Assign<T>(h) succeeded and neither
\* Remove<T>(h) nor DestroyEntity(h) was executed since.
C5_MaskPoolConsistency ==
    \A id \in issued, T \in Types : HasNow(id, T) <=> (<<id, T>> \in attached)

\* C6: the query over no types yields exactly the handles stored in the
\* slots whose handle is valid, whatever their masks, and none of a free
\* slot.
C6_MatchEverythingQuery ==
    (lastOp.op = "query" /\ lastOp.types = <<>>) =>
        /\ SeqSet(lastOp.seq) = {Slot(m_entities, i).m_id : i \in ValidSlots}
        /\ Len(lastOp.seq) = Cardinality(ValidSlots)

\* C6 witness: the query over no types ran over a table with a valid entity
\* without components after a free slot.
C6_Witness ==
    /\ lastOp.op = "query" /\ lastOp.types = <<>>
    /\ \E i \in ValidSlots :
          /\ Slot(m_entities, i).m_mask = {}
          /\ \E j \in Indices \ ValidSlots : j < i

\* C7: a query over a type list yields the same sequence as a second query
\* over the same list constructed after it, and leaves the World unchanged.
C7_IdempotentReiteration ==
    [][lastOp'.op = "query" =>
          /\ world' = world
          /\ \E reg \in {Reg'}, ents \in {m_entities'}, Ts \in {lastOp'.types} :
                QueryOn(reg, ents, Ts) = lastOp'.seq]_vars

\* C7 witness: a query over a type has yielded two entities.
C7_Witness ==
    /\ lastOp.op = "query"
    /\ Len(lastOp.types) >= 1
    /\ Len(lastOp.seq) >= 2

\* C8: after DestroyEntity(h) on a live handle, no query yields h, and every
\* other handle a query yielded before the destroy is still yielded by it; a
\* query started in any state yields no destroyed handle and no handle with
\* the sentinel index.
C8_DestroyedDisappears ==
    [][/\ lastOp'.op = "destroy" =>
            \E reg \in {Reg}, before \in {m_entities}, after \in {m_entities'} :
                \A id \in destroyed' \ destroyed, Ts \in TypeLists :
                    \E view \in {RosterViewCtor(reg, Ts).view} :
                        \E yielded \in {SeqSet(RangeFor(after, view))} :
                            /\ id \notin yielded
                            /\ SeqSet(RangeFor(before, view)) \ {id}
                                  \subseteq yielded
       /\ lastOp'.op = "query" =>
            \A h \in SeqSet(lastOp'.seq) :
                IsEntityValid(h) /\ h \notin destroyed']_vars

\* C8 witness: an entity was destroyed while another entity that queries
\* yield stays.
C8_Witness ==
    /\ lastOp.op = "destroy"
    /\ \E T \in Types : Len(QueryResult(<<T>>)) >= 1
    /\ Indices \ ValidSlots /= {}

\* C9: a value written through Get<T>(h) is what Get<T>(h) observes until
\* Assign<T>(h), Remove<T>(h) or DestroyEntity(h); the write changes no
\* other live entity's T value and no mask.
C9_StoragePerEntity ==
    [][/\ lastOp'.op = "write" =>
            \A id \in issued, T \in Types, v \in Values :
                Write(id, T, v) =>
                    /\ m_entities' = m_entities
                    /\ \A i \in ValidSlots :
                          LET other == Slot(m_entities, i).m_id
                          IN  (other /= id /\ GetNow(other, T) /= NullPtr) =>
                                  Deref(m_componentPools', GetNow(other, T))
                                    = Deref(m_componentPools, GetNow(other, T))
       /\ written' /= NoWrite =>
            /\ GetNow(written.id, written.type)' /= NullPtr
            /\ Deref(m_componentPools', GetNow(written.id, written.type)')
                  = written'.val]_vars

\* C10 as stated: Remove<T>(h) clears bit id(T) of the slot h addresses
\* whether or not h is the handle stored there.
C10_RemoveIgnoresFreshness ==
    [][lastOp'.op = "remove" =>
          \A id \in issued, T \in StoreTypes :
              Remove(id, T) =>
                  GetId(Reg, T)
                    \notin Slot(m_entities', GetEntityIndex(id)).m_mask]_vars

\* C10 amended: Remove<T>(h) clears bit id(T) of the slot h addresses, and
\* nothing else of the table, when h is the handle stored there, and changes
\* nothing when it is not; Assign likewise changes the table only through
\* the handle stored in the slot; Get compares no handles: it returns the
\* same for every handle of a slot.
C10_RemoveValidatesFreshness ==
    [][/\ lastOp'.op = "remove" =>
            IF lastOp'.fresh
            THEN \A id \in issued, T \in StoreTypes :
                     Remove(id, T) =>
                         m_entities' =
                             [m_entities EXCEPT
                                 ![GetEntityIndex(id) + 1].m_mask
                                     = @ \ {GetId(Reg, T)}]
            ELSE m_entities' = m_entities
       /\ lastOp'.op = "assign" =>
            IF lastOp'.fresh
            THEN \A id \in issued, T \in StoreTypes, v \in Values :
                     Assign(id, T, v) =>
                         m_entities' =
                             [m_entities EXCEPT
                                 ![GetEntityIndex(id) + 1].m_mask
                                     = @ \cup {GetId(Reg, T)}]
            ELSE m_entities' = m_entities
       /\ lastOp'.op = "get" =>
            \A id \in issued, other \in issued, T \in StoreTypes :
                GetEntityIndex(other) = GetEntityIndex(id) =>
                    GetNow(other, T) = GetNow(id, T)]_vars

\* C10 witness: a Remove through a stale handle has run and every slot is
\* valid and has the type attached, so the bit it named is still set.
C10_Witness ==
    /\ lastOp = Op("remove", FALSE, FALSE)
    /\ ValidSlots = Indices
    /\ \A i \in Indices : AttachedTypes(i) = StoreTypes

\* the handle a NewEntity() called now would return
NewNow == NewEntityOp(m_entities, m_freeEntities).ret

\* C11: each handle NewEntity returns differs from every handle it returned
\* earlier, live ones included, so two live entities never share a slot.
C11_NoHandleAliasing ==
    [][lastOp'.op = "new" => NewNow \notin issued]_vars

\* C12: the free list holds exactly the indices of the slots whose stored
\* handle has the sentinel index, each once; DestroyEntity pushes the index
\* of the slot it frees, NewEntity pops the last index pushed, and appends a
\* slot only when the free list is empty.
C12_FreeListInvariant ==
    [][/\ SeqSet(m_freeEntities') = (Indices \ ValidSlots)'
       /\ Len(m_freeEntities') = Cardinality((Indices \ ValidSlots)')
       /\ lastOp'.op = "destroy" =>
            \A id \in destroyed' \ destroyed :
                m_freeEntities' = Append(m_freeEntities, GetEntityIndex(id))
       /\ lastOp'.op = "new" =>
            IF m_freeEntities = <<>>
            THEN /\ Len(m_entities') = Len(m_entities) + 1
                 /\ m_freeEntities' = m_freeEntities
            ELSE /\ Len(m_entities') = Len(m_entities)
                 /\ m_freeEntities' =
                       SubSeq(m_freeEntities, 1, Len(m_freeEntities) - 1)
                 /\ GetEntityIndex(NewNow)
                       = m_freeEntities[Len(m_freeEntities)]]_vars

\* C13: right after h = NewEntity(), appended or recycled, the mask of slot
\* index(h) is empty, Get<T>(h) is null and Has<T>(h) false for every type
\* T, and h is the handle stored at slot index(h).
C13_NewEntityHasNoComponents ==
    [][lastOp'.op = "new" =>
          \E h \in {NewNow}, ents \in {m_entities'} :
              /\ Slot(ents, GetEntityIndex(h)).m_id = h
              /\ Slot(ents, GetEntityIndex(h)).m_mask = {}
              /\ \A T \in Types :
                    /\ GetOp(Reg, ents, m_componentPools, T, h).ret = NullPtr
                    /\ ~HasOp(Reg, ents, m_componentPools, T, h)]_vars

\* the generation stored in slot i of a table, and whether the slot is live
SlotVersion(ents, i) == GetEntityVersion(Slot(ents, i).m_id)
SlotLive(ents, i) == IsEntityValid(Slot(ents, i).m_id)

\* C14: the generation stored in a slot starts at 0, grows by exactly 1 at
\* each DestroyEntity of the slot's entity and is changed by nothing else; a
\* slot goes from live to free only by DestroyEntity and from free to live
\* only by NewEntity, and NewEntity takes only a slot that is free or new.
C14_GenerationMonotonic ==
    [][\E before \in {m_entities}, after \in {m_entities'} :
          /\ \A i \in Len(before)..(Len(after) - 1) :
                SlotVersion(after, i) = 0 /\ SlotLive(after, i)
          /\ \A i \in 0..(Len(before) - 1) :
                IF \E id \in destroyed' \ destroyed : GetEntityIndex(id) = i
                THEN /\ SlotVersion(after, i) = SlotVersion(before, i) + 1
                     /\ SlotLive(before, i) /\ ~SlotLive(after, i)
                ELSE /\ SlotVersion(after, i) = SlotVersion(before, i)
                     /\ (SlotLive(before, i) => SlotLive(after, i))
                     /\ (~SlotLive(before, i) /\ SlotLive(after, i))
                            => lastOp'.op = "new"
          /\ lastOp'.op = "new" =>
                \/ GetEntityIndex(NewNow) = Len(before)
                \/ ~SlotLive(before, GetEntityIndex(NewNow))]_vars

\* the view the last query constructed, and the indices of the slots that
\* qualify for it: valid, with every bit of the view's mask in their mask
LastView == RosterViewCtor(Reg, lastOp.types).view
QualifyingIndices(view) ==
    {i \in ValidSlots : view.m_componentMask \subseteq Slot(m_entities, i).m_mask}

\* C15: a traversal yields the handles of the qualifying slots in strictly
\* ascending slot index, from the smallest one, each once, with no more
\* advances than the table has slots; when nothing qualifies begin() is at
\* the end position.
C15_TraversalOrderedFinite ==
    lastOp.op = "query" =>
        \E seq \in {lastOp.seq}, view \in {LastView} :
            /\ \A k \in 1..Len(seq) :
                  /\ GetEntityIndex(seq[k]) \in QualifyingIndices(view)
                  /\ Slot(m_entities, GetEntityIndex(seq[k])).m_id = seq[k]
            /\ \A k \in 1..(Len(seq) - 1) :
                  GetEntityIndex(seq[k]) < GetEntityIndex(seq[k + 1])
            /\ {GetEntityIndex(seq[k]) : k \in 1..Len(seq)}
                  = QualifyingIndices(view)
            /\ Len(seq) <= Len(m_entities)
            /\ QualifyingIndices(view) = {} =>
                  ~NotEqual(m_entities, Begin(m_entities, view),
                            End(m_entities, view))

\* C15 witness: a traversal has skipped slot 0 and yielded a later slot.
C15_Witness ==
    /\ lastOp.op = "query"
    /\ Len(lastOp.seq) >= 1
    /\ GetEntityIndex(lastOp.seq[1]) > 0

\* the component cells of a pool registry: <<pool, index>> of every
\* constructed element
Cells(pools) ==
    UNION {{<<c, j>> : j \in DOMAIN pools[c + 1].m_data} :
              c \in 0..(Len(pools) - 1)}

\* C16: Assign<T>(h, v) through the handle stored in its slot returns
\* non-null, stores v at slot index(h) of T's pool and sets bit id(T) of the
\* slot's mask; the other bits, the other slots, the free list and every
\* other stored component value stay as they were.
C16_AssignFrame ==
    [][(lastOp'.op = "assign" /\ lastOp'.fresh) =>
          \A id \in {h \in issued : Fresh(h)}, T \in Types :
            \A v \in ValuesOf(T) :
              Assign(id, T, v) =>
                  \E cid \in {GetId(Reg, T)}, index \in {GetEntityIndex(id)},
                     pools \in {m_componentPools'} :
                      /\ lastOp'.ok
                      /\ Deref(pools, Ptr(cid, index)) = v
                      /\ m_entities' =
                            [m_entities EXCEPT
                                ![index + 1].m_mask = @ \cup {cid}]
                      /\ m_freeEntities' = m_freeEntities
                      /\ \A x \in Cells(m_componentPools) \ {<<cid, index>>} :
                            /\ x \in Cells(pools)
                            /\ Deref(pools, Ptr(x[1], x[2]))
                                  = Deref(m_componentPools, Ptr(x[1], x[2]))]_vars

\* C16 witness: an Assign through a live handle has succeeded while both
\* types have components stored and some entity has both.
C16_Witness ==
    /\ lastOp = Op("assign", TRUE, TRUE)
    /\ Len(m_componentPools) = 2
    /\ \A c \in 1..2 : DOMAIN m_componentPools[c].m_data /= {}
    /\ \E i \in ValidSlots : Cardinality(Slot(m_entities, i).m_mask) = 2

\* the types whose GetId<T> has been called
Registered(ids) == {T \in Types : ids[T] /= NoId}

\* C17: the first GetId<T>() gives T the next unused integer, counting from
\* 0; every later call returns the same integer; two types never hold the
\* same integer; the counter never decreases.  (A step that leaves the
\* counter and the identities as they were keeps what the step that set
\* them established; no type has an identity initially.)
C17_TypeIdentityStable ==
    [][\E ids \in {s_componentId'}, ctr \in {s_componentCounter'} :
          (ids /= s_componentId \/ ctr /= s_componentCounter) =>
              /\ {ids[T] : T \in Registered(ids)} = 0..(ctr - 1)
              /\ Cardinality(Registered(ids)) = ctr
              /\ ctr >= s_componentCounter
              /\ \A T \in Registered(s_componentId) : ids[T] = s_componentId[T]
              /\ \A T \in Registered(ids) \ Registered(s_componentId) :
                    ids[T] >= s_componentCounter
              /\ \A T \in Registered(ids) :
                    GetId([ctr |-> ctr, ids |-> ids], T) = ids[T]]_vars

\* C17 witness: both types have an identity, the second one given by the
\* construction of a query.
C17_Witness ==
    /\ lastOp.op = "query"
    /\ Registered(s_componentId) = Types
    /\ s_componentCounter = Cardinality(Types)
    /\ m_componentPools = <<>>

\* C18: GetEntityIndex and GetEntityVersion of CreateEntityId(index,
\* version) are index and version, for every 32-bit index and version; two
\* handles are equal exactly when both fields are; IsEntityValid is true
\* exactly when the index is not the all-bits-set pattern, whatever the
\* version.
C18_HandleRoundTrip ==
    /\ probe.stage = "decoded" =>
          /\ probe.outIndex = probe.index
          /\ probe.outVersion = probe.version
          /\ probe.valid <=> (probe.index /= InvalidIndex)
    /\ probe.stage \in {"encoded", "decoded"} =>
          \A index \in U32Samples, version \in U32Samples :
              (CreateEntityId(index, version) = probe.id)
                  <=> (index = probe.index /\ version = probe.version)

\* C18 witness: a handle with the sign bit set in its index and every bit
\* set in its version has been encoded and decoded.
C18_Witness ==
    /\ probe.stage = "decoded"
    /\ probe.index = MinI32
    /\ probe.version = InvalidIndex
    /\ probe.valid

\* C19: every slot whose stored handle has the sentinel index has an empty
\* mask, whatever handles Assign and Remove were called with.
C19_FreeSlotsCarryNoComponents ==
    \A i \in Indices \ ValidSlots : Slot(m_entities, i).m_mask = {}

\* C19 witness: an Assign has just been called with the handle of an entity
\* that was destroyed, whose slot is free, while a type has an identity.
C19_Witness ==
    /\ lastOp = Op("assign", FALSE, FALSE)
    /\ s_componentCounter >= 1
    /\ \E id \in destroyed : GetEntityIndex(id) \in Indices \ ValidSlots

\* C20: the entity table never shrinks and a slot keeps its place: slot i,
\* when its stored handle is valid, stores a handle whose index is i, so
\* every handle a query yields is the one stored at the slot it addresses.
\* (The table is empty initially; a step that leaves it as it was keeps
\* what the step that changed it established.)
C20_TableShape ==
    [][\E before \in {m_entities}, after \in {m_entities'} :
          /\ after /= before =>
                /\ Len(after) >= Len(before)
                /\ \A i \in 0..(Len(after) - 1) :
                      SlotLive(after, i)
                          => GetEntityIndex(Slot(after, i).m_id) = i
                /\ \A i \in 0..(Len(before) - 1) :
                      (SlotLive(before, i) /\ SlotLive(after, i)) =>
                          Slot(after, i).m_id = Slot(before, i).m_id
          /\ lastOp'.op = "query" =>
                \A k \in 1..Len(lastOp'.seq) :
                    /\ GetEntityIndex(lastOp'.seq[k]) < Len(after)
                    /\ Slot(after, GetEntityIndex(lastOp'.seq[k])).m_id
                          = lastOp'.seq[k]]_vars

\* C20 witness: a query has yielded the handle of a slot that was recycled
\* and the handle of the slot after it.
C20_Witness ==
    /\ lastOp.op = "query"
    /\ Len(lastOp.seq) = 2
    /\ GetEntityVersion(lastOp.seq[1]) = 1
    /\ GetEntityIndex(lastOp.seq[2]) = 1

====
